---- MODULE Spec2Model ----
(***************************************************************************)
(* The waitlist subsystem: the two storage backends (MemStorage and        *)
(* DatabaseStorage) behind the IStorage interface, and the four route      *)
(* handlers of registerRoutes.  A route handler is an async function: it   *)
(* runs atomically from one await to the next, and between two awaits of   *)
(* one request the storage calls of other requests may run.  Each action   *)
(* below is one such segment.  A storage call takes effect at one instant  *)
(* between the handler's call and its resumption, and nothing the handler  *)
(* does before the call is visible to other requests, so a segment is a    *)
(* storage call together with the handler code around it: back to the      *)
(* previous call (or the arrival of the request) and on to the next call   *)
(* (or the response).                                                      *)
(***************************************************************************)
EXTENDS Integers, Sequences, FiniteSets, TLC

VARIABLES
    backend,         \* which IStorage implementation `storage` is
    nodeEnv,         \* process.env.NODE_ENV
    waitlistEmails,  \* the Map's values / the table's rows, in insertion order
    ids,             \* identifiers generated so far (randomUUID / gen_random_uuid)
    tokens,          \* confirmation tokens generated so far (randomUUID)
    clock,           \* timestamps taken so far (new Date() / defaultNow())
    req,             \* the HTTP requests: what was sent, where the handler is, the response
    calls,           \* direct calls of the storage interface made so far
    lastCall,        \* the last direct call of the storage interface and its outcome
    addOk,           \* history: addToWaitlist calls that returned successfully
    pair,            \* one request sequence run over MemStorage and over DatabaseStorage
    users            \* the users Map's values / the users table's rows, in insertion order

vars == <<backend, nodeEnv, waitlistEmails, ids, tokens, clock, req, calls, lastCall, addOk,
          pair, users>>

-----------------------------------------------------------------------------
(* Bounds *)

MaxReqs == 4
MaxTokenInput == 2
MaxCalls == 4
MaxFailReqs == 3

Reqs == 1..MaxReqs

(* null / undefined of a column or field *)
Null == 0

-----------------------------------------------------------------------------
(* Request inputs.  An email is the sequence of its characters. *)

EmailA == <<"a", "@", "b", ".", "c", "o", "m">>
EmailC == <<"c", "@", "d", ".", "c", "o", "m">>
BadEmail == <<"b", "a", "d", "-", "e", "m", "a", "i", "l">>

Body(e) == [hasEmail |-> TRUE, email |-> e]
MissingEmailBody == [hasEmail |-> FALSE, email |-> <<>>]
ValidBodies == {Body(EmailA), Body(EmailC)}
Bodies == ValidBodies \cup {Body(BadEmail), MissingEmailBody}

TokenInputs == 1..MaxTokenInput

-----------------------------------------------------------------------------
(* z.string().email(...) *)

Letters == {"a", "b", "c", "d", "e", "i", "l", "m", "o"}
LocalChars == Letters \cup {".", "-", "_", "+"}

IsEmail(s) ==
    LET ats == {i \in DOMAIN s : s[i] = "@"}
    IN /\ Cardinality(ats) = 1
       /\ LET at == CHOOSE i \in ats : TRUE
              dots == {i \in (at + 1)..Len(s) : s[i] = "."}
          IN /\ at > 1
             /\ s[1] # "."
             /\ s[at - 1] \in LocalChars \ {"."}
             /\ \A i \in 1..(at - 1) : s[i] \in LocalChars
             /\ \A i \in 1..(Len(s) - 1) : ~(s[i] = "." /\ s[i + 1] = ".")
             /\ dots # {}
             /\ LET lastDot == CHOOSE i \in dots : \A j \in dots : j <= i
                IN /\ Len(s) - lastDot >= 2
                   /\ \A i \in (lastDot + 1)..Len(s) : s[i] \in Letters
                   /\ s[at + 1] \in Letters
                   /\ \A i \in dots : i + 1 <= Len(s) /\ s[i + 1] \in Letters
                   /\ \A i \in (at + 1)..lastDot : s[i] \in Letters \cup {"-", "."}

(* a changed ZodParse: any string passes as an email *)
ZodParseAnyString(body) == IF ~body.hasEmail THEN "Required" ELSE ""

(* insertWaitlistEmailSchema.parse(req.body): "" when it parses, else the
   message of the first ZodError issue *)
ZodParse(body) ==
    IF ~body.hasEmail THEN "Required"
    ELSE IF ~IsEmail(body.email) THEN "Please enter a valid email address"
    ELSE ""

-----------------------------------------------------------------------------
(* Storage.  A storage operation maps the store to [store, ok, value, error]:
   the store after the call, whether the call returned (FALSE: it threw),
   what it returned: <<>> for undefined, <<x>> for x, and the message of
   the error it threw. *)

(* a changed NewEntry: the entry is stored without a confirmation token *)
NewEntryWithoutToken(email, id, tok, now) ==
    [id |-> id, email |-> email, createdAt |-> now, confirmed |-> FALSE,
     confirmationToken |-> Null, confirmedAt |-> Null]

(* a changed NewEntry: the identifier is stored as the confirmation token *)
NewEntryTokenIsId(email, id, tok, now) ==
    [id |-> id, email |-> email, createdAt |-> now, confirmed |-> FALSE,
     confirmationToken |-> id, confirmedAt |-> Null]

NewEntry(email, id, tok, now) ==
    [id |-> id, email |-> email, createdAt |-> now, confirmed |-> FALSE,
     confirmationToken |-> tok, confirmedAt |-> Null]

Returned(w, v) == [store |-> w, ok |-> TRUE, value |-> v, error |-> ""]
Threw(w, error) == [store |-> w, ok |-> FALSE, value |-> <<>>, error |-> error]

(* Map.prototype.set: replaces the value of an existing key in place, else
   appends *)
MapSet(w, email, e) ==
    IF \E i \in DOMAIN w : w[i].email = email
    THEN [i \in DOMAIN w |-> IF w[i].email = email THEN e ELSE w[i]]
    ELSE Append(w, e)

First(s) == IF s = <<>> THEN <<>> ELSE <<s[1]>>

MemAddToWaitlist(w, email, id, tok, now) ==
    LET e == NewEntry(email, id, tok, now)
    IN Returned(MapSet(w, email, e), <<e>>)

(* the insert fails on a violated unique constraint: id (primary key),
   email, confirmation_token *)
DbAddToWaitlist(w, email, id, tok, now) ==
    LET e == NewEntry(email, id, tok, now)
    IN IF \E i \in DOMAIN w : \/ w[i].email = email
                              \/ w[i].id = id
                              \/ w[i].confirmationToken = tok
       THEN Threw(w, "duplicate key value violates unique constraint")
       ELSE Returned(Append(w, e), <<e>>)

AddToWaitlist(b, w, email, id, tok, now) ==
    IF b = "mem" THEN MemAddToWaitlist(w, email, id, tok, now)
    ELSE DbAddToWaitlist(w, email, id, tok, now)

(* a changed GetWaitlistEmail: only unconfirmed entries are found *)
GetPendingWaitlistEmail(w, email) ==
    LET hit(e) == e.email = email /\ ~e.confirmed IN First(SelectSeq(w, hit))

GetWaitlistEmail(w, email) ==
    LET hit(e) == e.email = email IN First(SelectSeq(w, hit))

(* a changed GetWaitlistEmailByToken: only unconfirmed entries are found *)
GetPendingWaitlistEmailByToken(w, tok) ==
    LET hit(e) == e.confirmationToken = tok /\ ~e.confirmed IN First(SelectSeq(w, hit))

GetWaitlistEmailByToken(w, tok) ==
    LET hit(e) == e.confirmationToken = tok IN First(SelectSeq(w, hit))

GetWaitlistCount(w) == Len(w)

(* a changed Confirmed: the confirmed flag is not set *)
ConfirmedFlagNotSet(e, now) ==
    [e EXCEPT !.confirmedAt = now, !.confirmationToken = Null]

(* a changed Confirmed: the creation timestamp is overwritten as well *)
ConfirmedResetsCreatedAt(e, now) ==
    [e EXCEPT !.confirmed = TRUE, !.confirmedAt = now, !.confirmationToken = Null,
              !.createdAt = now]

Confirmed(e, now) ==
    [e EXCEPT !.confirmed = TRUE, !.confirmedAt = now, !.confirmationToken = Null]

(* a changed MemConfirmEmail: the loop does not test `!confirmed` *)
MemConfirmEmailAnyHolder(w, tok, now) ==
    LET hits == {i \in DOMAIN w : w[i].confirmationToken = tok}
    IN IF hits = {} THEN Returned(w, <<>>)
       ELSE LET i == CHOOSE k \in hits : \A j \in hits : k <= j
            IN Returned([w EXCEPT ![i] = Confirmed(w[i], now)], <<Confirmed(w[i], now)>>)

(* the first entry in iteration order with that token and not confirmed *)
MemConfirmEmail(w, tok, now) ==
    LET hits == {i \in DOMAIN w : w[i].confirmationToken = tok /\ ~w[i].confirmed}
    IN IF hits = {} THEN Returned(w, <<>>)
       ELSE LET i == CHOOSE k \in hits : \A j \in hits : k <= j
            IN Returned([w EXCEPT ![i] = Confirmed(w[i], now)], <<Confirmed(w[i], now)>>)

(* a changed DbConfirmEmail: the update matches on the token alone and
   leaves the token in place *)
DbConfirmEmailByTokenAlone(w, tok, now) ==
    LET hit(e) == e.confirmationToken = tok
        mark(e) == [e EXCEPT !.confirmed = TRUE, !.confirmedAt = now]
        after == [i \in DOMAIN w |-> IF hit(w[i]) THEN mark(w[i]) ELSE w[i]]
        updated == [i \in DOMAIN SelectSeq(w, hit) |-> mark(SelectSeq(w, hit)[i])]
    IN Returned(after, First(updated))

(* one UPDATE ... WHERE confirmation_token = tok AND confirmed = false
   RETURNING *: every matching row is updated, the first is returned *)
DbConfirmEmail(w, tok, now) ==
    LET hit(e) == e.confirmationToken = tok /\ ~e.confirmed
        after == [i \in DOMAIN w |-> IF hit(w[i]) THEN Confirmed(w[i], now) ELSE w[i]]
        updated == [i \in DOMAIN SelectSeq(w, hit) |-> Confirmed(SelectSeq(w, hit)[i], now)]
    IN Returned(after, First(updated))

ConfirmEmail(b, w, tok, now) ==
    IF b = "mem" THEN MemConfirmEmail(w, tok, now) ELSE DbConfirmEmail(w, tok, now)

(* a changed MemRegenerateConfirmationToken: the new token is returned but
   the updated entry is not put back into the map *)
MemRegenerateNotStored(w, email, newToken) ==
    IF GetWaitlistEmail(w, email) # <<>> THEN Returned(w, <<newToken>>)
    ELSE Threw(w, "Email not found")

(* a changed MemRegenerateConfirmationToken: a confirmed entry is not found *)
MemRegeneratePendingOnly(w, email, newToken) ==
    IF GetWaitlistEmail(w, email) # <<>> /\ ~GetWaitlistEmail(w, email)[1].confirmed
    THEN Returned(MapSet(w, email,
                         [GetWaitlistEmail(w, email)[1] EXCEPT !.confirmationToken = newToken]),
                  <<newToken>>)
    ELSE Threw(w, "Email not found")

MemRegenerateConfirmationToken(w, email, newToken) ==
    IF GetWaitlistEmail(w, email) # <<>>
    THEN Returned(MapSet(w, email,
                         [GetWaitlistEmail(w, email)[1] EXCEPT !.confirmationToken = newToken]),
                  <<newToken>>)
    ELSE Threw(w, "Email not found")

(* a changed DbRegenerateConfirmationToken: the update has no WHERE clause
   and writes the new token into every row *)
DbRegenerateEveryRow(w, email, newToken) ==
    LET hit(e) == e.email = email
        after == [i \in DOMAIN w |-> [w[i] EXCEPT !.confirmationToken = newToken]]
    IN IF SelectSeq(w, hit) = <<>> THEN Threw(w, "Email not found")
       ELSE Returned(after, <<newToken>>)

(* UPDATE ... SET confirmation_token = newToken WHERE email = ... RETURNING * *)
DbRegenerateConfirmationToken(w, email, newToken) ==
    LET hit(e) == e.email = email
        after == [i \in DOMAIN w |->
                     IF hit(w[i]) THEN [w[i] EXCEPT !.confirmationToken = newToken] ELSE w[i]]
    IN IF \E i \in DOMAIN w : w[i].confirmationToken = newToken /\ hit(w[i]) = FALSE
       THEN Threw(w, "duplicate key value violates unique constraint")
       ELSE IF SelectSeq(w, hit) = <<>> THEN Threw(w, "Email not found")
       ELSE Returned(after, <<newToken>>)

RegenerateConfirmationToken(b, w, email, newToken) ==
    IF b = "mem" THEN MemRegenerateConfirmationToken(w, email, newToken)
    ELSE DbRegenerateConfirmationToken(w, email, newToken)

-----------------------------------------------------------------------------
(* Initial state *)

NoRes == [status |-> 0, message |-> "", email |-> <<>>, token |-> <<>>,
          count |-> <<>>, confirmed |-> FALSE]

(* kind, body and token: the request; pc: where its handler is; newToken:
   the confirmation token the handler's storage call returned to it (of
   `waitlistEmail`, or `newToken`); caught: what the handler's catch block
   caught, "" while nothing is thrown; res: the response *)
IdleReq == [kind |-> "none", pc |-> "idle", body |-> MissingEmailBody, token |-> Null,
            newToken |-> <<>>, caught |-> "", res |-> NoRes]

NoCall == [op |-> "none", email |-> <<>>, token |-> Null, ok |-> TRUE, value |-> <<>>,
           error |-> ""]

(* a store with its generators: nothing stored, nothing generated *)
EmptySide == [w |-> <<>>, ids |-> 0, tokens |-> 0, clock |-> 0]

NoPair == [mem |-> EmptySide, db |-> EmptySide, status |-> [mem |-> 0, db |-> 0],
           kind |-> "none", n |-> 0]

Init ==
    /\ users = <<>>
    /\ pair = NoPair
    /\ backend \in {"mem", "db"}
    /\ nodeEnv \in {"development", "production"}
    /\ waitlistEmails = <<>>
    /\ ids = 0
    /\ tokens = 0
    /\ clock = 0
    /\ req = [r \in Reqs |-> IdleReq]
    /\ calls = 0
    /\ lastCall = NoCall
    /\ addOk = 0

-----------------------------------------------------------------------------
(* Route layer *)

Respond(r, status, message) ==
    [req[r] EXCEPT !.pc = "done", !.res.status = status, !.res.message = message]

(* catch (error): a ZodError is answered 400 with its first message *)
CatchZodError(q, message) ==
    [q EXCEPT !.pc = "done", !.caught = "ZodError", !.res.status = 400,
              !.res.message = message]

(* a changed CatchError: the response is written but the handler is left
   where it was *)
CatchErrorAndGoOn(q) ==
    [q EXCEPT !.caught = "Error", !.res.status = 500,
              !.res.message = "Internal server error"]

(* a changed CatchError: the error is swallowed and no response is written *)
CatchErrorWithoutResponse(q) == [q EXCEPT !.pc = "done", !.caught = "Error"]

(* catch (error): any other error is answered 500 *)
CatchError(q) ==
    [q EXCEPT !.pc = "done", !.caught = "Error", !.res.status = 500,
              !.res.message = "Internal server error"]

InFlight(r) == req[r].pc \notin {"idle", "done"}

(* a request arrives: request slots are used in order *)
CanStart(r) ==
    /\ req[r].pc = "idle"
    /\ \A q \in Reqs : q < r => req[q].pc # "idle"

StoreUnchanged == UNCHANGED <<waitlistEmails, ids, tokens, clock>>
FixedUnchanged == UNCHANGED <<backend, nodeEnv, calls, lastCall, pair, users>>

(* POST /api/waitlist up to `await storage.addToWaitlist`: parse, then
   storage.getWaitlistEmail; 400, 409, or on to the insert *)
PostWaitlist(r, body) ==
    /\ CanStart(r)
    /\ LET started == [req[r] EXCEPT !.kind = "join", !.body = body]
       IN req' = [req EXCEPT ![r] =
                    IF ZodParse(body) # ""
                    THEN CatchZodError(started, ZodParse(body))
                    ELSE IF GetWaitlistEmail(waitlistEmails, body.email) # <<>>
                    THEN [started EXCEPT !.pc = "done", !.res.status = 409,
                             !.res.message = "Email already registered for waitlist"]
                    ELSE [started EXCEPT !.pc = "addToWaitlist"]]
    /\ StoreUnchanged /\ FixedUnchanged /\ UNCHANGED addOk

(* storage.addToWaitlist returns or throws; 201 or 500 *)
JoinAddToWaitlist(r) ==
    /\ req[r].kind = "join" /\ req[r].pc = "addToWaitlist"
    /\ LET out == AddToWaitlist(backend, waitlistEmails, req[r].body.email,
                                ids + 1, tokens + 1, clock + 1)
       IN /\ waitlistEmails' = out.store
          /\ tokens' = tokens + 1
          /\ ids' = IF out.ok THEN ids + 1 ELSE ids
          /\ clock' = IF out.ok THEN clock + 1 ELSE clock
          /\ addOk' = IF out.ok THEN addOk + 1 ELSE addOk
          /\ req' = [req EXCEPT ![r] =
                       IF out.ok
                       THEN [Respond(r, 201, "Successfully added to waitlist")
                                EXCEPT !.res.email = <<out.value[1].email>>,
                                       !.newToken = <<out.value[1].confirmationToken>>]
                       ELSE CatchError(req[r])]
    /\ FixedUnchanged

(* GET /api/waitlist/count: storage.getWaitlistCount; 200 *)
GetCount(r) ==
    /\ CanStart(r)
    /\ req' = [req EXCEPT ![r] =
                 [req[r] EXCEPT !.kind = "count", !.pc = "done", !.res.status = 200,
                                !.res.count = <<GetWaitlistCount(waitlistEmails)>>]]
    /\ StoreUnchanged /\ FixedUnchanged /\ UNCHANGED addOk

(* POST /api/waitlist/confirm/:token: storage.confirmEmail; 400, 404 or 200 *)
PostConfirm(r, token) ==
    /\ CanStart(r)
    /\ LET started == [req[r] EXCEPT !.kind = "confirm", !.token = token, !.pc = "done"]
           out == ConfirmEmail(backend, waitlistEmails, token, clock + 1)
       IN IF token = Null
          THEN /\ req' = [req EXCEPT ![r] =
                            [started EXCEPT !.res.status = 400,
                                !.res.message = "Confirmation token is required"]]
               /\ UNCHANGED <<waitlistEmails, clock>>
          ELSE /\ waitlistEmails' = out.store
               /\ clock' = IF out.value # <<>> THEN clock + 1 ELSE clock
               /\ req' = [req EXCEPT ![r] =
                            IF out.value = <<>>
                            THEN [started EXCEPT !.res.status = 404,
                                     !.res.message = "Invalid or expired confirmation token"]
                            ELSE [started EXCEPT !.res.status = 200,
                                     !.res.message = "Email confirmed successfully",
                                     !.res.confirmed = TRUE]]
    /\ UNCHANGED <<ids, tokens, addOk>> /\ FixedUnchanged

(* a changed PostResend: the handler does not answer 404 for an email
   without an entry and goes on to the regeneration *)
PostResendWithoutNotFound(r, body) ==
    /\ CanStart(r)
    /\ LET started == [req[r] EXCEPT !.kind = "resend", !.body = body]
           waitlistEntry == GetWaitlistEmail(waitlistEmails, body.email)
       IN req' = [req EXCEPT ![r] =
                    IF ZodParse(body) # ""
                    THEN CatchZodError(started, ZodParse(body))
                    ELSE IF waitlistEntry # <<>> /\ waitlistEntry[1].confirmed
                    THEN [started EXCEPT !.pc = "done", !.res.status = 400,
                                         !.res.message = "Email is already confirmed"]
                    ELSE [started EXCEPT !.pc = "regenerateConfirmationToken"]]
    /\ StoreUnchanged /\ FixedUnchanged /\ UNCHANGED addOk

(* POST /api/waitlist/resend-confirmation up to
   `await storage.regenerateConfirmationToken`: parse, then
   storage.getWaitlistEmail; 400, 404, 400, or on to the regeneration *)
PostResend(r, body) ==
    /\ CanStart(r)
    /\ LET started == [req[r] EXCEPT !.kind = "resend", !.body = body]
           waitlistEntry == GetWaitlistEmail(waitlistEmails, body.email)
       IN req' = [req EXCEPT ![r] =
                    IF ZodParse(body) # ""
                    THEN CatchZodError(started, ZodParse(body))
                    ELSE IF waitlistEntry = <<>>
                    THEN [started EXCEPT !.pc = "done", !.res.status = 404,
                                         !.res.message = "Email not found in waitlist"]
                    ELSE IF waitlistEntry[1].confirmed
                    THEN [started EXCEPT !.pc = "done", !.res.status = 400,
                                         !.res.message = "Email is already confirmed"]
                    ELSE [started EXCEPT !.pc = "regenerateConfirmationToken"]]
    /\ StoreUnchanged /\ FixedUnchanged /\ UNCHANGED addOk

(* a changed ResendRegenerateConfirmationToken: the response carries the
   new token whatever NODE_ENV is *)
ResendRegenerateAlwaysShowsToken(r) ==
    /\ req[r].kind = "resend" /\ req[r].pc = "regenerateConfirmationToken"
    /\ LET out == RegenerateConfirmationToken(backend, waitlistEmails,
                                              req[r].body.email, tokens + 1)
       IN /\ waitlistEmails' = out.store
          /\ tokens' = tokens + 1
          /\ req' = [req EXCEPT ![r] =
                       IF out.ok
                       THEN [Respond(r, 200, "Confirmation email resent")
                                EXCEPT !.newToken = out.value, !.res.token = out.value]
                       ELSE CatchError(req[r])]
    /\ UNCHANGED <<ids, clock, addOk>> /\ FixedUnchanged

(* storage.regenerateConfirmationToken returns or throws; 200 or 500 *)
ResendRegenerateConfirmationToken(r) ==
    /\ req[r].kind = "resend" /\ req[r].pc = "regenerateConfirmationToken"
    /\ LET out == RegenerateConfirmationToken(backend, waitlistEmails,
                                              req[r].body.email, tokens + 1)
       IN /\ waitlistEmails' = out.store
          /\ tokens' = tokens + 1
          /\ req' = [req EXCEPT ![r] =
                       IF out.ok
                       THEN [Respond(r, 200, "Confirmation email resent")
                                EXCEPT !.newToken = out.value,
                                       !.res.token =
                                    IF nodeEnv = "development" THEN out.value ELSE <<>>]
                       ELSE CatchError(req[r])]
    /\ UNCHANGED <<ids, clock, addOk>> /\ FixedUnchanged

(* a request arrives, its body one of B, and its handler runs to its first
   suspension *)
Arrive(r, B) ==
    \/ \E body \in B : PostWaitlist(r, body)
    \/ GetCount(r)
    \/ \E token \in TokenInputs : PostConfirm(r, token)
    \/ \E body \in B : PostResend(r, body)

(* a suspended handler resumes *)
Continue(r) ==
    \/ JoinAddToWaitlist(r)
    \/ ResendRegenerateConfirmationToken(r)

(* requests with well-formed emails arrive at any time and their handlers
   interleave at the awaits *)
Next == \E r \in Reqs : Arrive(r, ValidBodies) \/ Continue(r)

Spec == Init /\ [][Next]_vars

(* requests handled one at a time, with any body: a request arrives only
   when no handler is suspended *)
NextSeq ==
    \E r \in Reqs : ((\A q \in Reqs : ~InFlight(q)) /\ Arrive(r, Bodies)) \/ Continue(r)

SeqSpec == Init /\ [][NextSeq]_vars

-----------------------------------------------------------------------------
(* Storage calls that fail unexpectedly: the awaited promise rejects with an
   error of the storage layer (not a ZodError).  A read that fails leaves
   the store as it is; a write that fails either was not applied, or was
   applied and only its result was lost, which `applied` chooses. *)

(* POST /api/waitlist: storage.getWaitlistEmail rejects *)
PostWaitlistFails(r, body) ==
    /\ CanStart(r)
    /\ ZodParse(body) = ""
    /\ req' = [req EXCEPT ![r] = CatchError([req[r] EXCEPT !.kind = "join", !.body = body])]
    /\ StoreUnchanged /\ FixedUnchanged /\ UNCHANGED addOk

(* POST /api/waitlist: storage.addToWaitlist rejects *)
JoinAddToWaitlistFails(r, applied) ==
    /\ req[r].kind = "join" /\ req[r].pc = "addToWaitlist"
    /\ LET out == AddToWaitlist(backend, waitlistEmails, req[r].body.email,
                                ids + 1, tokens + 1, clock + 1)
           done == applied /\ out.ok
       IN /\ waitlistEmails' = IF done THEN out.store ELSE waitlistEmails
          /\ tokens' = tokens + 1
          /\ ids' = IF done THEN ids + 1 ELSE ids
          /\ clock' = IF done THEN clock + 1 ELSE clock
          /\ addOk' = addOk
          /\ req' = [req EXCEPT ![r] = CatchError(req[r])]
    /\ FixedUnchanged

(* GET /api/waitlist/count: storage.getWaitlistCount rejects *)
GetCountFails(r) ==
    /\ CanStart(r)
    /\ req' = [req EXCEPT ![r] = CatchError([req[r] EXCEPT !.kind = "count"])]
    /\ StoreUnchanged /\ FixedUnchanged /\ UNCHANGED addOk

(* POST /api/waitlist/confirm/:token: storage.confirmEmail rejects *)
PostConfirmFails(r, token, applied) ==
    /\ CanStart(r)
    /\ token # Null
    /\ LET out == ConfirmEmail(backend, waitlistEmails, token, clock + 1)
           done == applied /\ out.value # <<>>
       IN /\ waitlistEmails' = IF done THEN out.store ELSE waitlistEmails
          /\ clock' = IF done THEN clock + 1 ELSE clock
          /\ req' = [req EXCEPT ![r] =
                       CatchError([req[r] EXCEPT !.kind = "confirm", !.token = token])]
    /\ UNCHANGED <<ids, tokens, addOk>> /\ FixedUnchanged

(* POST /api/waitlist/resend-confirmation: storage.getWaitlistEmail rejects *)
PostResendFails(r, body) ==
    /\ CanStart(r)
    /\ ZodParse(body) = ""
    /\ req' = [req EXCEPT ![r] = CatchError([req[r] EXCEPT !.kind = "resend", !.body = body])]
    /\ StoreUnchanged /\ FixedUnchanged /\ UNCHANGED addOk

(* POST /api/waitlist/resend-confirmation:
   storage.regenerateConfirmationToken rejects *)
ResendRegenerateFails(r, applied) ==
    /\ req[r].kind = "resend" /\ req[r].pc = "regenerateConfirmationToken"
    /\ LET out == RegenerateConfirmationToken(backend, waitlistEmails,
                                              req[r].body.email, tokens + 1)
       IN /\ waitlistEmails' = IF applied /\ out.ok THEN out.store ELSE waitlistEmails
          /\ tokens' = tokens + 1
          /\ req' = [req EXCEPT ![r] = CatchError(req[r])]
    /\ UNCHANGED <<ids, clock, addOk>> /\ FixedUnchanged

(* a request arrives and the first storage call of its handler rejects *)
ArriveFails(r, B) ==
    \/ \E body \in B : PostWaitlistFails(r, body)
    \/ GetCountFails(r)
    \/ \E token \in TokenInputs, applied \in BOOLEAN : PostConfirmFails(r, token, applied)
    \/ \E body \in B : PostResendFails(r, body)

(* a suspended handler resumes with a rejection *)
ContinueFails(r) ==
    \/ \E applied \in BOOLEAN : JoinAddToWaitlistFails(r, applied)
    \/ \E applied \in BOOLEAN : ResendRegenerateFails(r, applied)

(* up to MaxFailReqs requests with well-formed emails handled one at a time,
   every storage call of a handler either completing or rejecting *)
NextFail ==
    \E r \in 1..MaxFailReqs :
        \/ /\ \A q \in Reqs : ~InFlight(q)
           /\ Arrive(r, ValidBodies) \/ ArriveFails(r, ValidBodies)
        \/ Continue(r)
        \/ ContinueFails(r)

FailSpec == Init /\ [][NextFail]_vars

-----------------------------------------------------------------------------
(* The route layer over both backends.  A handler that runs with no other
   request in between is a function of the store and the request: Handle*
   is a handler run from arrival to response over backend b, on a side s
   (a store with its generators), giving the side after and the status. *)

Handled(s, status) == [side |-> s, status |-> status]

HandleJoin(b, s, body) ==
    IF ZodParse(body) # "" THEN Handled(s, 400)
    ELSE IF GetWaitlistEmail(s.w, body.email) # <<>> THEN Handled(s, 409)
    ELSE LET out == AddToWaitlist(b, s.w, body.email, s.ids + 1, s.tokens + 1, s.clock + 1)
         IN IF out.ok
            THEN Handled([w |-> out.store, ids |-> s.ids + 1, tokens |-> s.tokens + 1,
                          clock |-> s.clock + 1], 201)
            ELSE Handled([s EXCEPT !.w = out.store, !.tokens = s.tokens + 1], 500)

HandleCount(b, s) == Handled(s, 200)

HandleConfirm(b, s, token) ==
    IF token = Null THEN Handled(s, 400)
    ELSE LET out == ConfirmEmail(b, s.w, token, s.clock + 1)
         IN IF out.value = <<>> THEN Handled([s EXCEPT !.w = out.store], 404)
            ELSE Handled([s EXCEPT !.w = out.store, !.clock = s.clock + 1], 200)

HandleResend(b, s, body) ==
    IF ZodParse(body) # "" THEN Handled(s, 400)
    ELSE IF GetWaitlistEmail(s.w, body.email) = <<>> THEN Handled(s, 404)
    ELSE IF GetWaitlistEmail(s.w, body.email)[1].confirmed THEN Handled(s, 400)
    ELSE LET out == RegenerateConfirmationToken(b, s.w, body.email, s.tokens + 1)
         IN Handled([s EXCEPT !.w = out.store, !.tokens = s.tokens + 1],
                    IF out.ok THEN 200 ELSE 500)

Handle(b, s, kind, body, token) ==
    IF kind = "join" THEN HandleJoin(b, s, body)
    ELSE IF kind = "count" THEN HandleCount(b, s)
    ELSE IF kind = "confirm" THEN HandleConfirm(b, s, token)
    ELSE HandleResend(b, s, body)

(* one request handled by the route layer over MemStorage and by the route
   layer over DatabaseStorage *)
PairRequest(kind, body, token) ==
    /\ pair.n < MaxReqs
    /\ pair' = [mem |-> Handle("mem", pair.mem, kind, body, token).side,
                db |-> Handle("db", pair.db, kind, body, token).side,
                status |-> [mem |-> Handle("mem", pair.mem, kind, body, token).status,
                            db |-> Handle("db", pair.db, kind, body, token).status],
                kind |-> kind, n |-> pair.n + 1]
    /\ UNCHANGED <<backend, nodeEnv, waitlistEmails, ids, tokens, clock, req, calls,
                   lastCall, addOk, users>>

PairJoin(body) == PairRequest("join", body, Null)
PairCount == PairRequest("count", MissingEmailBody, Null)
PairConfirm(token) == PairRequest("confirm", MissingEmailBody, token)
PairResend(body) == PairRequest("resend", body, Null)

NextPair ==
    \/ \E body \in Bodies : PairJoin(body)
    \/ PairCount
    \/ \E token \in TokenInputs : PairConfirm(token)
    \/ \E body \in Bodies : PairResend(body)

PairSpec == Init /\ [][NextPair]_vars

(* as NextFail, the requests all naming one email *)
LiveBodies == {Body(EmailA)}

NextLive ==
    \E r \in 1..MaxFailReqs :
        \/ /\ \A q \in Reqs : ~InFlight(q)
           /\ Arrive(r, LiveBodies) \/ ArriveFails(r, LiveBodies)
        \/ Continue(r)
        \/ ContinueFails(r)

(* every awaited storage call settles: the call a suspended handler waits
   for eventually returns or rejects *)
LiveSpec ==
    Init /\ [][NextLive]_vars /\ \A r \in Reqs : WF_vars(Continue(r) \/ ContinueFails(r))

-----------------------------------------------------------------------------
(* The storage interface called directly, one call at a time *)

ValidEmails == {EmailA, EmailC}

Called(op, email, token, out) ==
    /\ calls < MaxCalls
    /\ calls' = calls + 1
    /\ lastCall' = [op |-> op, email |-> email, token |-> token,
                    ok |-> out.ok, value |-> out.value, error |-> out.error]
    /\ waitlistEmails' = out.store
    /\ UNCHANGED <<backend, nodeEnv, req, pair, users>>

CallAddToWaitlist(email) ==
    LET out == AddToWaitlist(backend, waitlistEmails, email, ids + 1, tokens + 1, clock + 1)
    IN /\ Called("addToWaitlist", email, Null, out)
       /\ tokens' = tokens + 1
       /\ ids' = IF out.ok THEN ids + 1 ELSE ids
       /\ clock' = IF out.ok THEN clock + 1 ELSE clock
       /\ addOk' = IF out.ok THEN addOk + 1 ELSE addOk

CallGetWaitlistEmail(email) ==
    /\ Called("getWaitlistEmail", email, Null,
              Returned(waitlistEmails, GetWaitlistEmail(waitlistEmails, email)))
    /\ UNCHANGED <<ids, tokens, clock, addOk>>

CallGetWaitlistEmailByToken(token) ==
    /\ Called("getWaitlistEmailByToken", <<>>, token,
              Returned(waitlistEmails, GetWaitlistEmailByToken(waitlistEmails, token)))
    /\ UNCHANGED <<ids, tokens, clock, addOk>>

CallGetWaitlistCount ==
    /\ Called("getWaitlistCount", <<>>, Null,
              Returned(waitlistEmails, <<GetWaitlistCount(waitlistEmails)>>))
    /\ UNCHANGED <<ids, tokens, clock, addOk>>

CallConfirmEmail(token) ==
    LET out == ConfirmEmail(backend, waitlistEmails, token, clock + 1)
    IN /\ Called("confirmEmail", <<>>, token, out)
       /\ clock' = IF out.value # <<>> THEN clock + 1 ELSE clock
       /\ UNCHANGED <<ids, tokens, addOk>>

CallRegenerateConfirmationToken(email) ==
    LET out == RegenerateConfirmationToken(backend, waitlistEmails, email, tokens + 1)
    IN /\ Called("regenerateConfirmationToken", email, Null, out)
       /\ tokens' = tokens + 1
       /\ UNCHANGED <<ids, clock, addOk>>

NextStorage ==
    \/ \E email \in ValidEmails : CallAddToWaitlist(email)
    \/ \E email \in ValidEmails : CallGetWaitlistEmail(email)
    \/ \E token \in TokenInputs : CallGetWaitlistEmailByToken(token)
    \/ CallGetWaitlistCount
    \/ \E token \in TokenInputs : CallConfirmEmail(token)
    \/ \E email \in ValidEmails : CallRegenerateConfirmationToken(email)

StorageSpec == Init /\ [][NextStorage]_vars

-----------------------------------------------------------------------------
(* The users of the storage interface, called directly, one call at a time *)

Usernames == {"alice", "bob"}
Passwords == {"pw"}
UserIdInputs == 1..MaxCalls

GetUser(u, id) ==
    LET hit(x) == x.id = id IN First(SelectSeq(u, hit))

GetUserByUsername(u, username) ==
    LET hit(x) == x.username = username IN First(SelectSeq(u, hit))

(* this.users.set(id, user) under a new identifier *)
MemCreateUser(u, username, password, id) ==
    LET user == [id |-> id, username |-> username, password |-> password]
    IN Returned(Append(u, user), <<user>>)

(* the insert fails on a violated unique constraint: id (primary key),
   username *)
DbCreateUser(u, username, password, id) ==
    LET user == [id |-> id, username |-> username, password |-> password]
    IN IF \E i \in DOMAIN u : u[i].username = username \/ u[i].id = id
       THEN Threw(u, "duplicate key value violates unique constraint")
       ELSE Returned(Append(u, user), <<user>>)

CreateUser(b, u, username, password, id) ==
    IF b = "mem" THEN MemCreateUser(u, username, password, id)
    ELSE DbCreateUser(u, username, password, id)

UserCalled(op, username, id, out) ==
    /\ calls < MaxCalls
    /\ calls' = calls + 1
    /\ lastCall' = [op |-> op, email |-> username, token |-> id,
                    ok |-> out.ok, value |-> out.value, error |-> out.error]
    /\ users' = out.store
    /\ UNCHANGED <<backend, nodeEnv, waitlistEmails, tokens, clock, req, addOk, pair>>

CallCreateUser(username, password) ==
    LET out == CreateUser(backend, users, username, password, ids + 1)
    IN /\ UserCalled("createUser", username, Null, out)
       /\ ids' = IF out.ok THEN ids + 1 ELSE ids

CallGetUser(id) ==
    /\ UserCalled("getUser", <<>>, id, Returned(users, GetUser(users, id)))
    /\ UNCHANGED ids

CallGetUserByUsername(username) ==
    /\ UserCalled("getUserByUsername", username, Null,
                  Returned(users, GetUserByUsername(users, username)))
    /\ UNCHANGED ids

NextUsers ==
    \/ \E username \in Usernames, password \in Passwords : CallCreateUser(username, password)
    \/ \E id \in UserIdInputs : CallGetUser(id)
    \/ \E username \in Usernames : CallGetUserByUsername(username)

UserSpec == Init /\ [][NextUsers]_vars

-----------------------------------------------------------------------------
(* Vocabulary of the properties *)

Done(r) == req[r].pc = "done"
Status(r) == req[r].res.status

Entries == {waitlistEmails[i] : i \in DOMAIN waitlistEmails}

JoinsOf(email) == {r \in Reqs : req[r].kind = "join" /\ req[r].body = Body(email)}
ConfirmsOf(token) == {r \in Reqs : req[r].kind = "confirm" /\ req[r].token = token}

-----------------------------------------------------------------------------
(* C1: persistent backend: of two or more POST /api/waitlist requests with
   the same well-formed email, however they interleave, exactly one is
   answered 201 and every other one 409. *)
C1_ExactlyOneJoinOthersConflict ==
    backend = "db" =>
        \A email \in ValidEmails :
            (Cardinality(JoinsOf(email)) >= 2 /\ \A r \in JoinsOf(email) : Done(r)) =>
                /\ Cardinality({r \in JoinsOf(email) : Status(r) = 201}) = 1
                /\ \A r \in JoinsOf(email) : Status(r) \in {201, 409}

(* C3: persistent backend: of the confirm requests carrying one token, at
   most one is answered 200 and all the others 404. *)
C3_AtMostOneConfirmSucceeds ==
    backend = "db" =>
        \A token \in TokenInputs :
            /\ Cardinality({r \in ConfirmsOf(token) : Status(r) = 200}) <= 1
            /\ \A r \in ConfirmsOf(token) : Done(r) => Status(r) \in {200, 404}

(* two confirm requests with the token of a pending entry have both been
   answered, one of them 200 *)
C3_Witness ==
    /\ backend = "db"
    /\ \E token \in TokenInputs :
          /\ Cardinality({r \in ConfirmsOf(token) : Done(r)}) >= 2
          /\ \E r \in ConfirmsOf(token) : Status(r) = 200
          /\ \E r \in ConfirmsOf(token) : Status(r) = 404

(* C10: under any interleaving of join, confirm and resend-confirmation
   requests, every confirmed entry has confirmed-at set and no confirmation
   token (stated of the persistent backend, the one `storage` is). *)
C10_ConfirmedHasNoToken ==
    backend = "db" =>
    \A e \in Entries : e.confirmed => (e.confirmedAt # Null /\ e.confirmationToken = Null)

-----------------------------------------------------------------------------
(* Requests handled one at a time (SeqSpec): the request slots are used in
   order, so r < s says that r was answered before s arrived. *)

EntryOf(w, email) == GetWaitlistEmail(w, email)

(* the requests whose storage call returned `token` to them, as the token
   it had just stored: a join answered 201 or a resend answered 200 *)
IssuersOf(token) == {q \in Reqs : req[q].newToken = <<token>>}

ResentAfter(q) ==
    \E s \in Reqs : /\ s > q
                    /\ req[s].kind = "resend"
                    /\ req[s].body = req[q].body
                    /\ Status(s) = 200

ConfirmedWithAfter(token, q) ==
    \E s \in ConfirmsOf(token) : s > q /\ Done(s)

ConfirmArrives(r) == req[r].pc = "idle" /\ req'[r].kind = "confirm"

(* C2: a token issued to a pending entry and not replaced by a resend: the
   first confirm request with it is answered 200 and turns the entry from
   unconfirmed to confirmed, every later one is answered 404, and it is
   answered 200 at most once. *)
C2_ConfirmStep(r) ==
    ConfirmArrives(r) =>
        \A q \in IssuersOf(req'[r].token) :
            ~ResentAfter(q) =>
                IF ConfirmedWithAfter(req'[r].token, q)
                THEN req'[r].res.status = 404
                ELSE /\ req'[r].res.status = 200
                     /\ ~EntryOf(waitlistEmails, req[q].body.email)[1].confirmed
                     /\ EntryOf(waitlistEmails', req[q].body.email)[1].confirmed

C2_TokenConfirmsOnce ==
    /\ [](\A token \in TokenInputs :
            Cardinality({r \in ConfirmsOf(token) : Status(r) = 200}) <= 1)
    /\ [][\A r \in Reqs : C2_ConfirmStep(r)]_vars

(* a token was issued, then confirmed (200), then confirmed again (404) *)
C2_Witness ==
    \E token \in TokenInputs : \E q \in IssuersOf(token) :
        /\ ~ResentAfter(q)
        /\ \E r1, r2 \in ConfirmsOf(token) :
              q < r1 /\ r1 < r2 /\ Status(r1) = 200 /\ Status(r2) = 404

(* C4: once a resend has replaced token A of a pending entry by token B, a
   confirm request with A is answered 404 and changes nothing, and a
   confirm request with B, no further resend having intervened and the
   entry still pending, is answered 200 and confirms the entry. *)
C4_ConfirmStep(r) ==
    ConfirmArrives(r) =>
        \A q \in IssuersOf(req'[r].token) :
            /\ ResentAfter(q) =>
                  /\ req'[r].res.status = 404
                  /\ waitlistEmails' = waitlistEmails
            /\ (req[q].kind = "resend" /\ ~ResentAfter(q)
                    /\ ~ConfirmedWithAfter(req'[r].token, q)) =>
                  /\ req'[r].res.status = 200
                  /\ EntryOf(waitlistEmails', req[q].body.email)[1].confirmed

C4_ResendInvalidatesOldToken == [][\A r \in Reqs : C4_ConfirmStep(r)]_vars

(* join (token A), resend (token B), confirm A answered 404, confirm B
   answered 200 *)
C4_Witness ==
    \E q, s, r1, r2 \in Reqs :
        /\ req[q].kind = "join" /\ req[q].newToken # <<>>
        /\ req[s].kind = "resend" /\ req[s].body = req[q].body /\ req[s].newToken # <<>>
        /\ q < s /\ s < r1 /\ r1 < r2
        /\ req[r1].kind = "confirm" /\ <<req[r1].token>> = req[q].newToken
        /\ Status(r1) = 404
        /\ req[r2].kind = "confirm" /\ <<req[r2].token>> = req[s].newToken
        /\ Status(r2) = 200

JoinArrives(r) == req[r].pc = "idle" /\ req'[r].kind = "join" /\ ZodParse(req'[r].body) = ""
JoinInserts(r) == req[r].kind = "join" /\ req[r].pc = "addToWaitlist" /\ req'[r].pc = "done"

(* C7: requests handled one at a time: a join whose well-formed email is
   present, pending or confirmed, is answered 409 and leaves the store as
   it is; one whose email is not present is answered 201 with that email
   and raises the count by exactly one. *)
C7_JoinStep(r) ==
    /\ JoinArrives(r) =>
          /\ waitlistEmails' = waitlistEmails
          /\ IF EntryOf(waitlistEmails, req'[r].body.email) # <<>>
             THEN req'[r].pc = "done" /\ req'[r].res.status = 409
             ELSE req'[r].pc = "addToWaitlist"
    /\ JoinInserts(r) =>
          /\ EntryOf(waitlistEmails, req[r].body.email) = <<>>
          /\ req'[r].res.status = 201
          /\ req'[r].res.email = <<req[r].body.email>>
          /\ GetWaitlistCount(waitlistEmails') = GetWaitlistCount(waitlistEmails) + 1
          /\ EntryOf(waitlistEmails', req[r].body.email) # <<>>
          /\ \A e \in Entries : e \in {waitlistEmails'[i] : i \in DOMAIN waitlistEmails'}

C7_SequentialJoin == [][\A r \in Reqs : C7_JoinStep(r)]_vars

(* one email: joined (201), confirmed, joined again (409); the count is 1 *)
C7_Witness ==
    \E r1, r2, r3 \in Reqs :
        /\ r1 < r2 /\ r2 < r3
        /\ req[r1].kind = "join" /\ Status(r1) = 201
        /\ req[r2].kind = "confirm" /\ Status(r2) = 200
        /\ req[r3].kind = "join" /\ req[r3].body = req[r1].body /\ Status(r3) = 409
        /\ GetWaitlistCount(waitlistEmails) = 1

-----------------------------------------------------------------------------
(* The storage interface called directly (StorageSpec) *)

AddCalled == calls' = calls + 1 /\ lastCall'.op = "addToWaitlist"

(* C5: getWaitlistCount() is the number of addToWaitlist calls that have
   returned successfully. *)
C5_CountIsSuccessfulAdds == GetWaitlistCount(waitlistEmails) = addOk

(* C6: addToWaitlist with an email that already has an entry fails and
   leaves the store, and so the entry and the count, unchanged. *)
C6_DuplicateAddFails ==
    [][(AddCalled /\ EntryOf(waitlistEmails, lastCall'.email) # <<>>) =>
           (~lastCall'.ok /\ waitlistEmails' = waitlistEmails)]_vars

(* C8: the entry a successful addToWaitlist creates is stored, is not
   confirmed, has no confirmed-at, and has a token that is present, was held
   by no entry before the call and is held by no other entry after it. *)
C8_NewEntryIsPending ==
    [][(AddCalled /\ lastCall'.ok) =>
           LET e == lastCall'.value[1]
           IN /\ EntryOf(waitlistEmails', lastCall'.email) = <<e>>
              /\ e.confirmed = FALSE
              /\ e.confirmedAt = Null
              /\ e.confirmationToken # Null
              /\ \A old \in Entries : old.confirmationToken # e.confirmationToken
              /\ \A i \in DOMAIN waitlistEmails' :
                    waitlistEmails'[i] # e =>
                        waitlistEmails'[i].confirmationToken # e.confirmationToken]_vars

(* addToWaitlist has just created an entry beside another entry that still
   holds its token *)
C8_Witness ==
    /\ lastCall.op = "addToWaitlist" /\ lastCall.ok
    /\ lastCall.value[1] \in Entries
    /\ \E other \in Entries :
          other # lastCall.value[1] /\ other.confirmationToken # Null

(* C9: an entry that is confirmed is confirmed after every step. *)
C9_ConfirmedStaysConfirmed ==
    [][\A email \in ValidEmails :
           (EntryOf(waitlistEmails, email) # <<>>
                /\ EntryOf(waitlistEmails, email)[1].confirmed) =>
               (EntryOf(waitlistEmails', email) # <<>>
                   /\ EntryOf(waitlistEmails', email)[1].confirmed)]_vars

HoldersOf(w, token) == {i \in DOMAIN w : w[i].confirmationToken = token}

(* C11: no two entries hold the same confirmation token, and a token that
   has been generated and is held by no entry (it was cleared by a
   confirmation or replaced by a regeneration) is never held again. *)
C11_TokensUniqueAndNeverReused ==
    /\ [](\A token \in 1..tokens : Cardinality(HoldersOf(waitlistEmails, token)) <= 1)
    /\ [][\A token \in 1..tokens :
             HoldersOf(waitlistEmails, token) = {} =>
                 HoldersOf(waitlistEmails', token) = {}]_vars

(* one token has been cleared by a confirmation, one replaced by a
   regeneration, and two entries hold tokens *)
C11_Witness ==
    /\ \E e \in Entries : e.confirmed /\ e.confirmationToken = Null
    /\ lastCall.op = "regenerateConfirmationToken" /\ lastCall.ok
    /\ Cardinality({e \in Entries : e.confirmationToken # Null}) >= 1
    /\ Len(waitlistEmails) = 2

(* C16: regenerateConfirmationToken(email), either backend: with no entry
   for the email it throws "Email not found" and the store is unchanged;
   with an entry it returns a token held by no entry before and never
   generated before, that entry now holds exactly the returned token, and
   no other field and no other entry has changed. *)
C16_RegenerateStep ==
    [][(lastCall'.op = "regenerateConfirmationToken" /\ calls' = calls + 1) =>
          LET w == waitlistEmails
              hits == {i \in DOMAIN w : w[i].email = lastCall'.email}
          IN IF hits = {}
             THEN /\ ~lastCall'.ok
                  /\ lastCall'.error = "Email not found"
                  /\ waitlistEmails' = w
             ELSE /\ lastCall'.ok
                  /\ Len(lastCall'.value) = 1
                  /\ lastCall'.value[1] \notin 0..tokens
                  /\ HoldersOf(w, lastCall'.value[1]) = {}
                  /\ DOMAIN waitlistEmails' = DOMAIN w
                  /\ \A i \in DOMAIN w :
                        waitlistEmails'[i] =
                            IF i \in hits
                            THEN [w[i] EXCEPT !.confirmationToken = lastCall'.value[1]]
                            ELSE w[i]]_vars

(* a regeneration for one of two entries has returned the token that entry
   now holds *)
C16_Witness ==
    /\ lastCall.op = "regenerateConfirmationToken" /\ lastCall.ok
    /\ Len(waitlistEmails) = 2
    /\ \E e \in Entries : e.email = lastCall.email /\ <<e.confirmationToken>> = lastCall.value

-----------------------------------------------------------------------------
(* Steps of the route layer: a handler starts when its request slot leaves
   "idle", and what it read is the store of the state it started in. *)

ResendArrives(r) == req[r].pc = "idle" /\ req'[r].kind = "resend"

(* C12: a resend-confirmation request whose email has a confirmed entry
   when the handler reads it is answered 400 "Email is already confirmed"
   at once, so regenerateConfirmationToken is never called for it (the
   answered request takes no further step and no token is generated), and
   the store is unchanged. *)
C12_ResendOfConfirmed ==
    [][\A r \in Reqs :
          /\ (/\ ResendArrives(r)
              /\ \E e \in Entries : e.email = req'[r].body.email /\ e.confirmed) =>
                 /\ req'[r].pc = "done"
                 /\ req'[r].res.status = 400
                 /\ req'[r].res.message = "Email is already confirmed"
                 /\ UNCHANGED <<waitlistEmails, ids, tokens, clock>>
          /\ (req[r].kind = "resend" /\ Done(r)) => req'[r] = req[r]]_vars

(* a resend-confirmation request for a confirmed entry has been answered *)
C12_Witness ==
    \E r \in Reqs :
        /\ req[r].kind = "resend" /\ Done(r)
        /\ req[r].res.message = "Email is already confirmed"
        /\ \E e \in Entries : e.email = req[r].body.email /\ e.confirmed

(* C13: a resend-confirmation request with a well-formed email that has no
   entry when the handler reads is answered 404 "Email not found in
   waitlist" at once; no entry is created and the store, so the count and
   every entry, is unchanged. *)
C13_ResendOfUnknown ==
    [][\A r \in Reqs :
          (/\ ResendArrives(r)
           /\ req'[r].body.hasEmail /\ IsEmail(req'[r].body.email)
           /\ \A e \in Entries : e.email # req'[r].body.email) =>
              /\ req'[r].pc = "done"
              /\ req'[r].res.status = 404
              /\ req'[r].res.message = "Email not found in waitlist"
              /\ UNCHANGED <<waitlistEmails, ids, tokens, clock>>]_vars

(* a resend-confirmation request for an email without an entry has been
   answered while the waitlist holds a confirmed entry of another email *)
C13_Witness ==
    \E r \in Reqs :
        /\ req[r].kind = "resend" /\ Done(r) /\ Status(r) = 404
        /\ \A e \in Entries : e.email # req[r].body.email
        /\ \E e \in Entries : e.confirmed

InvalidBodies == {Body(BadEmail), MissingEmailBody}

(* C14: a POST /api/waitlist or resend-confirmation request whose body has
   no email or a malformed one is answered 400 with the validation message
   in the step it arrives in, before any storage call: the store, the
   identifiers, the tokens and the clock are unchanged, and the answered
   request takes no further step. *)
C14_InvalidBodyRejected ==
    [][\A r \in Reqs :
          /\ (/\ req[r].pc = "idle"
              /\ req'[r].kind \in {"join", "resend"}
              /\ req'[r].body \in InvalidBodies) =>
                 /\ req'[r].pc = "done"
                 /\ req'[r].res.status = 400
                 /\ req'[r].res.message =
                        IF req'[r].body = MissingEmailBody THEN "Required"
                        ELSE "Please enter a valid email address"
                 /\ UNCHANGED <<waitlistEmails, ids, tokens, clock>>
          /\ (Done(r) /\ req[r].body \in InvalidBodies /\ req[r].kind \in {"join", "resend"}) =>
                 req'[r] = req[r]]_vars

(* a join with a malformed email and a resend-confirmation without an email
   have been answered 400 while the waitlist holds an entry *)
C14_Witness ==
    /\ waitlistEmails # <<>>
    /\ \E r \in Reqs : /\ req[r].kind = "join" /\ req[r].body = Body(BadEmail)
                       /\ Done(r) /\ Status(r) = 400
    /\ \E r \in Reqs : /\ req[r].kind = "resend" /\ req[r].body = MissingEmailBody
                       /\ Done(r) /\ Status(r) = 400

PendingHolders(w, token) == {i \in HoldersOf(w, token) : ~w[i].confirmed}

(* C15: confirmEmail(token) when no unconfirmed entry holds the token (it
   was never issued, was used, was replaced, or its holder is confirmed):
   called directly it returns undefined and the store is unchanged; called
   by the confirm route the request is answered 404 and the store is
   unchanged.  The state after is the state before, so a repetition meets
   the same condition. *)
C15_ConfirmWithoutPendingHolder ==
    [][/\ \A r \in Reqs :
             (ConfirmArrives(r) /\ PendingHolders(waitlistEmails, req'[r].token) = {}) =>
                 /\ req'[r].pc = "done"
                 /\ req'[r].res.status = 404
                 /\ req'[r].res.message = "Invalid or expired confirmation token"
                 /\ UNCHANGED <<waitlistEmails, ids, tokens, clock>>
       /\ (/\ calls' = calls + 1
           /\ lastCall'.op = "confirmEmail"
           /\ PendingHolders(waitlistEmails, lastCall'.token) = {}) =>
                 /\ lastCall'.ok /\ lastCall'.value = <<>>
                 /\ UNCHANGED <<waitlistEmails, ids, tokens, clock>>]_vars

(* a confirm request has been answered 404 for a token whose holder is a
   confirmed entry, after another confirm request was answered 200 *)
C15_Witness ==
    \E r, s \in Reqs :
        /\ req[r].kind = "confirm" /\ Status(r) = 404
        /\ \E i \in HoldersOf(waitlistEmails, req[r].token) : waitlistEmails[i].confirmed
        /\ req[s].kind = "confirm" /\ Status(s) = 200

ResendRegenerates(r) ==
    req[r].kind = "resend" /\ req[r].pc = "regenerateConfirmationToken" /\ req'[r].pc = "done"

(* C17: a step of a confirm or resend-confirmation request, whatever it
   answers, leaves the number of entries as it is and changes no entry but
   the one holding the request's token (confirm) or email (resend); the
   entry a confirm changes keeps its identifier, email and creation
   timestamp, and the entry a resend changes differs in its token only. *)
C17_ConfirmAndResendTouchOneEntry ==
    [][\A r \in Reqs :
          /\ ConfirmArrives(r) =>
                /\ Len(waitlistEmails') = Len(waitlistEmails)
                /\ \A i \in DOMAIN waitlistEmails :
                      \/ waitlistEmails'[i] = waitlistEmails[i]
                      \/ /\ waitlistEmails[i].confirmationToken = req'[r].token
                         /\ req'[r].res.status = 200
                         /\ waitlistEmails'[i] =
                               [waitlistEmails[i] EXCEPT
                                   !.confirmed = waitlistEmails'[i].confirmed,
                                   !.confirmedAt = waitlistEmails'[i].confirmedAt,
                                   !.confirmationToken = waitlistEmails'[i].confirmationToken]
          /\ (ResendArrives(r) \/ ResendRegenerates(r)) =>
                /\ Len(waitlistEmails') = Len(waitlistEmails)
                /\ \A i \in DOMAIN waitlistEmails :
                      \/ waitlistEmails'[i] = waitlistEmails[i]
                      \/ /\ waitlistEmails[i].email = req'[r].body.email
                         /\ waitlistEmails'[i] =
                               [waitlistEmails[i] EXCEPT
                                   !.confirmationToken = waitlistEmails'[i].confirmationToken]]_vars

(* a confirm and a resend-confirmation have both been answered 200 with two
   entries in the waitlist *)
C17_Witness ==
    /\ Len(waitlistEmails) = 2
    /\ \E r \in Reqs : req[r].kind = "confirm" /\ Status(r) = 200
    /\ \E r \in Reqs : req[r].kind = "resend" /\ Status(r) = 200

(* C18: a response carries a confirmation token only if NODE_ENV is not
   production and the response is that of a resend-confirmation answered
   200, and the token it carries is the one the regeneration returned; so
   in production no response of any endpoint carries a token. *)
C18_TokenOnlyOutsideProduction ==
    \A r \in Reqs :
        req[r].res.token # <<>> =>
            /\ nodeEnv # "production"
            /\ req[r].kind = "resend" /\ Done(r) /\ Status(r) = 200
            /\ req[r].res.token = req[r].newToken

(* in production a resend-confirmation has been answered 200, after a join
   and a confirm were answered too *)
C18_Witness ==
    /\ nodeEnv = "production"
    /\ \E r \in Reqs : req[r].kind = "resend" /\ Status(r) = 200 /\ req[r].newToken # <<>>
    /\ \E r \in Reqs : req[r].kind = "join" /\ Status(r) = 201
    /\ \E r \in Reqs : req[r].kind = "confirm" /\ Done(r)

-----------------------------------------------------------------------------
(* Failing storage calls (FailSpec) *)

(* the stores the storage call that request r is about to make can leave:
   the store as it is, and for a write also the store with the write done *)
StoresAfterCallOf(r) ==
    {waitlistEmails} \cup
    IF req[r].pc = "addToWaitlist"
    THEN {AddToWaitlist(backend, waitlistEmails, req[r].body.email,
                        ids + 1, tokens + 1, clock + 1).store}
    ELSE IF req[r].pc = "regenerateConfirmationToken"
    THEN {RegenerateConfirmationToken(backend, waitlistEmails,
                                      req[r].body.email, tokens + 1).store}
    ELSE IF req'[r].kind = "confirm"
    THEN {ConfirmEmail(backend, waitlistEmails, req'[r].token, clock + 1).store}
    ELSE {}

(* C19: when a storage call of a handler throws an error that is not a
   ZodError, the request is answered 500 "Internal server error" and
   nothing else in that step; the store is what the failed call left; and
   the request takes no further step, so the handler makes no further
   storage call and does not retry. *)
C19_StorageFailureAnswered500 ==
    [][\A r \in Reqs :
          /\ (req[r].caught = "" /\ req'[r].caught = "Error") =>
                /\ req'[r].pc = "done"
                /\ req'[r].res = [NoRes EXCEPT !.status = 500,
                                               !.message = "Internal server error"]
                /\ waitlistEmails' \in StoresAfterCallOf(r)
          /\ req[r].caught = "Error" => req'[r] = req[r]]_vars

(* a join whose insert was applied before the call failed, a resend and a
   count request have all been answered 500 *)
C19_Witness ==
    /\ \E r \in Reqs :
          /\ req[r].kind = "join" /\ req[r].caught = "Error" /\ Status(r) = 500
          /\ \E e \in Entries : e.email = req[r].body.email
          /\ \A s \in JoinsOf(req[r].body.email) : Status(s) # 201
    /\ \E r \in Reqs : req[r].kind = "resend" /\ req[r].caught = "Error"
    /\ \E r \in Reqs : req[r].kind = "count" /\ req[r].caught = "Error"

-----------------------------------------------------------------------------
(* The two backends behind the route layer (PairSpec) *)

(* what the two stores are compared on: the emails, and of each entry
   whether it is confirmed and whether it holds a token *)
Shape(w) ==
    {[email |-> w[i].email, confirmed |-> w[i].confirmed,
      hasToken |-> w[i].confirmationToken # Null] : i \in DOMAIN w}

(* the route actions, with requests handled one at a time (SeqSpec), answer
   and change the store as Handle does: a request that is answered in this
   step gets the status, and leaves the store and the generators, that
   Handle computes from the state before the step *)
HandleIsTheRouteLayer ==
    [][\A r \in Reqs :
          (req[r].pc # "done" /\ req'[r].pc = "done") =>
              LET h == Handle(backend,
                              [w |-> waitlistEmails, ids |-> ids, tokens |-> tokens,
                               clock |-> clock],
                              req'[r].kind, req'[r].body, req'[r].token)
              IN /\ req'[r].res.status = h.status
                 /\ <<waitlistEmails', ids', tokens', clock'>> =
                        <<h.side.w, h.side.ids, h.side.tokens, h.side.clock>>]_vars

(* C20: for every sequence of join, count, confirm and resend-confirmation
   requests handled one at a time, the route layer over MemStorage and the
   route layer over DatabaseStorage give the same status to each request,
   and after each request the two stores hold the same emails, each with
   the same confirmed flag and both with or both without a token. *)
C20_BackendsInterchangeable ==
    /\ pair.status.mem = pair.status.db
    /\ Shape(pair.mem.w) = Shape(pair.db.w)

(* after a join, a resend-confirmation and a confirm that succeeded, a
   confirm with a token no longer valid has been answered 404 over both
   backends *)
C20_Witness ==
    /\ pair.n = MaxReqs
    /\ pair.kind = "confirm" /\ pair.status.db = 404
    /\ \E i \in DOMAIN pair.db.w : pair.db.w[i].confirmed
    /\ pair.db.tokens >= 2

-----------------------------------------------------------------------------
(* Users (UserSpec) *)

CreateUserCalled == calls' = calls + 1 /\ lastCall'.op = "createUser"

UsersNamed(u, username) == {i \in DOMAIN u : u[i].username = username}

(* C21: either backend: no two users share a username; createUser with a
   username some user has fails and leaves the users as they are;
   createUser with an unused username returns the new user, and getUser on
   its identifier returns that user. *)
C21_CreateUserKeepsUsernamesUnique ==
    /\ [](\A username \in Usernames : Cardinality(UsersNamed(users, username)) <= 1)
    /\ [][CreateUserCalled =>
             IF UsersNamed(users, lastCall'.email) # {}
             THEN ~lastCall'.ok /\ users' = users
             ELSE /\ lastCall'.ok
                  /\ GetUser(users', lastCall'.value[1].id) = lastCall'.value]_vars

-----------------------------------------------------------------------------
(* The storage interface called directly (StorageSpec), continued *)

(* C22: either backend: getWaitlistEmailByToken(t) returns undefined when
   no entry holds t and otherwise returns an entry of the store that holds
   t; and once a generated token is held by no entry (a confirmEmail used
   it or a regeneration replaced it), getWaitlistEmailByToken of it is
   undefined after every later step. *)
C22_ByTokenFindsTheHolder ==
    [][/\ (calls' = calls + 1 /\ lastCall'.op = "getWaitlistEmailByToken") =>
             IF HoldersOf(waitlistEmails, lastCall'.token) = {}
             THEN lastCall'.value = <<>>
             ELSE /\ Len(lastCall'.value) = 1
                  /\ lastCall'.value[1] \in Entries
                  /\ lastCall'.value[1].confirmationToken = lastCall'.token
       /\ \A token \in 1..tokens :
             HoldersOf(waitlistEmails, token) = {} =>
                 GetWaitlistEmailByToken(waitlistEmails', token) = <<>>]_vars

(* getWaitlistEmailByToken has returned undefined for a token that a
   confirmEmail used, and the entry it confirmed is in the store *)
C22_Witness ==
    /\ lastCall.op = "getWaitlistEmailByToken" /\ lastCall.value = <<>>
    /\ lastCall.token \in 1..tokens
    /\ \E e \in Entries : e.confirmed /\ e.confirmationToken = Null

-----------------------------------------------------------------------------
(* Any interleaving of the route handlers (Spec), continued *)

(* the emails a token was issued for: the email of the join or resend whose
   storage call stored the token *)
EmailsOfToken(token) == {req[q].body.email : q \in IssuersOf(token)}

(* the confirm requests answered 200 that confirmed the entry of `email` *)
ConfirmedBy(email) ==
    {r \in Reqs : /\ req[r].kind = "confirm" /\ Status(r) = 200
                  /\ email \in EmailsOfToken(req[r].token)}

(* C23: for each email, under any interleaving of join, resend-confirmation
   and confirm requests, at most one confirm request for a token of that
   email's entry is answered 200. *)
C23_EmailConfirmedAtMostOnce ==
    \A email \in ValidEmails : Cardinality(ConfirmedBy(email)) <= 1

(* C24: either backend, any interleaving: when no request is in flight, the
   number of POST /api/waitlist requests answered 201 is the count that
   GET /api/waitlist/count returns. *)
C24_Count201IsCount ==
    (\A r \in Reqs : ~InFlight(r)) =>
        Cardinality({r \in Reqs : req[r].kind = "join" /\ Status(r) = 201})
            = GetWaitlistCount(waitlistEmails)

(* C25: either backend, every reachable state: an entry that is not
   confirmed holds a confirmation token, and confirmEmail with that token
   would return an entry and leave this entry confirmed. *)
C25_PendingEntryHoldsToken ==
    \A i \in DOMAIN waitlistEmails :
        ~waitlistEmails[i].confirmed =>
            /\ waitlistEmails[i].confirmationToken # Null
            /\ LET out == ConfirmEmail(backend, waitlistEmails,
                                       waitlistEmails[i].confirmationToken, clock + 1)
               IN /\ out.ok /\ out.value # <<>>
                  /\ out.value[1].email = waitlistEmails[i].email
                  /\ out.store[i].confirmed

(* a pending entry holds a regenerated token beside a confirmed entry *)
C25_Witness ==
    /\ lastCall.op = "regenerateConfirmationToken" /\ lastCall.ok
    /\ \E e \in Entries : ~e.confirmed /\ <<e.confirmationToken>> = lastCall.value
    /\ \E e \in Entries : e.confirmed

(* C26: under any interleaving, no step removes the entry of an email, so
   when the handler of a resend-confirmation that found its email calls
   regenerateConfirmationToken the email still has an entry, the call does
   not throw, and the request is answered 200; with no storage call
   failing unexpectedly, no resend-confirmation is answered 500. *)
C26_ResendNeverFails ==
    /\ [](\A r \in Reqs :
             req[r].kind = "resend" => (Status(r) # 500 /\ req[r].caught # "Error"))
    /\ [][/\ \A e \in Entries : \E kept \in Entries' : kept.email = e.email
          /\ \A r \in Reqs :
                ResendRegenerates(r) =>
                    /\ \E e \in Entries : e.email = req[r].body.email
                    /\ req'[r].res.status = 200
                    /\ req'[r].newToken # <<>>]_vars

(* a resend-confirmation has been answered 200 although its entry was
   confirmed between its read and its regeneration *)
C26_Witness ==
    \E r \in Reqs :
        /\ req[r].kind = "resend" /\ Status(r) = 200
        /\ \E e \in Entries : /\ e.email = req[r].body.email
                              /\ e.confirmed
                              /\ <<e.confirmationToken>> = req[r].newToken

-----------------------------------------------------------------------------
(* Every request is answered (LiveSpec) *)

Answered(r) == Status(r) # 0

(* C27: on every path of every handler, with storage calls returning or
   rejecting: a response is written exactly when the handler ends, so not
   before and not zero times; a request that was answered takes no further
   step, so it is not answered twice; and, every awaited storage call
   settling, a request whose handler is suspended is eventually answered. *)
C27_AnsweredExactlyOnce ==
    /\ [](\A r \in Reqs : Answered(r) <=> Done(r))
    /\ [][\A r \in Reqs : Answered(r) => req'[r] = req[r]]_vars
    /\ \A r \in Reqs : InFlight(r) ~> (Done(r) /\ Answered(r))

(* three requests have been answered, one 201 after its insert, one 409 and
   one 500 *)
C27_Witness ==
    /\ \A r \in 1..MaxFailReqs : Done(r) /\ Answered(r)
    /\ \E r \in Reqs : Status(r) = 201
    /\ \E r \in Reqs : Status(r) = 409
    /\ \E r \in Reqs : Status(r) = 500 /\ req[r].caught = "Error"

====
